---- MODULE Spec2Model ----
(***************************************************************************)
(* Model of management/models.py and management/admin.py: the stock        *)
(* reconciliation signal handlers of InvoiceItem, the derived totals of    *)
(* Invoice and Quotation, invoice numbering and the finance auto-posting   *)
(* of InvoiceAdmin.save_related.                                           *)
(*                                                                         *)
(* Money is an integer number of paise (Decimal with 2 places, times 100); *)
(* a GST percentage is an integer number of hundredths of a percent        *)
(* (Decimal with 2 places, times 100).                                     *)
(***************************************************************************)
EXTENDS Integers, Sequences, FiniteSets

\* ------------------------------------------------------------------ bounds

\* Stock rows 1..NumStocks exist from the start.
NumStocks == 2
\* The quantity every Stock row starts with.
InitQty == 2
\* Largest quantity entered on an InvoiceItem or QuotationItem.
MaxQty == 2
\* InvoiceItem primary keys handed out (an AutoField never reuses one).
MaxItemPk == 2
\* Invoice primary keys handed out.
MaxInvoicePk == 2
\* Quotation and QuotationItem primary keys handed out.
MaxQuotationPk == 1
MaxQItemPk == 2
\* Operations are not taken when they would raise a Stock above this.
QtyCap == 3
\* Finance rows kept; a save that would post one more is not taken.
MaxFinance == 2
\* The calendar year the runs start in.
BaseYear == 2025
\* Requests that can be in flight at once.
NumRequests == 2

Stocks == 1..NumStocks
ItemPks == 1..MaxItemPk
InvoicePks == 1..MaxInvoicePk
QuotationPks == 1..MaxQuotationPk
QItemPks == 1..MaxQItemPk
Qtys == 1..MaxQty
Requests == 1..NumRequests

\* A null foreign key (InvoiceItem.stock is null=True).
None == 0
StockRefs == Stocks \cup {None}
\* A primary key with no row, a dictionary key with no entry.
NoRow == [absent |-> TRUE]
\* A request slot nothing runs in.
Idle == [pc |-> "idle"]

\* What a form enters for a line item: price and discount in paise, GST in
\* hundredths of a percent.
ItemPricings ==
  { [price |-> 5000, discount |-> 0, gst |-> 0],
    [price |-> 25, discount |-> 0, gst |-> 500],
    [price |-> 100, discount |-> 500, gst |-> 1800] }
DefaultPricing == [price |-> 5000, discount |-> 0, gst |-> 0]

\* What a form enters for a document: discount and advance in paise, GST in
\* hundredths of a percent.
DocTerms ==
  { [discount |-> 0, gst |-> 0, advance_amount |-> 0],
    [discount |-> 30, gst |-> 500, advance_amount |-> 20000],
    [discount |-> 15, gst |-> 1000, advance_amount |-> 0] }
DefaultTerms == [discount |-> 0, gst |-> 0, advance_amount |-> 0]

PaymentStatus == {"UNPAID", "PAID"}

Max(a, b) == IF a >= b THEN a ELSE b

VARIABLES
  stockQty,      \* Stock.quantity of every Stock row, as persisted
  items,         \* InvoiceItem rows by primary key, NoRow where there is none
  nextItemPk,    \* the next InvoiceItem primary key
  oldValues,     \* the module-level dictionary _invoice_item_old_values
  invoices,      \* Invoice rows by primary key, NoRow where there is none
  nextInvoicePk, \* the next Invoice primary key
  quotations,    \* Quotation rows by primary key
  nextQuotationPk, \* the next Quotation primary key
  qitems,        \* QuotationItem rows by primary key
  nextQItemPk,   \* the next QuotationItem primary key
  finance,       \* Finance rows, in the order they were created
  year,          \* datetime.now().year
  audit,         \* AuditEvent rows, in the order of their creation
  requests,      \* the requests in flight: where each is and what it holds
  paidBefore,    \* history: invoices an admin save has left PAID with a total
  assigned,      \* history: every invoice_no a stored invoice was given
  initQty,       \* history: the quantity every Stock started with
  clamped,       \* history: some deduction was floored at 0
  rerouted,      \* history: some update changed an item's stock reference
  last           \* history: the last operation and the state it started from

vars == <<stockQty, items, nextItemPk, oldValues, invoices, nextInvoicePk,
          quotations, nextQuotationPk, qitems, nextQItemPk, finance, year,
          audit, requests, paidBefore, assigned, initQty, clamped, rerouted,
          last>>

stockVars == <<stockQty, items, nextItemPk, oldValues>>
invoiceVars == <<invoices, nextInvoicePk, finance>>
quotationVars == <<quotations, nextQuotationPk, qitems, nextQItemPk>>

\* ------------------------------------------------- stock reconciliation

\* The database and process state the InvoiceItem signal handlers read and
\* write, as one value, so that a caller can run several saves in a row.
StockDb == [stockQty |-> stockQty, items |-> items, nextItemPk |-> nextItemPk,
            oldValues |-> oldValues, clamped |-> clamped]

\* An InvoiceItem instance in memory. stock is the sl_no of instance.stock or
\* None; stock_quantity is the quantity attribute of that Stock object, as it
\* was when the object was read.
ItemInstance(pk, inv, s, seen, n, p) ==
  [pk |-> pk, invoice |-> inv, stock |-> s, stock_quantity |-> seen,
   quantity |-> n, price |-> p.price, discount |-> p.discount, gst |-> p.gst]

\* The row an instance is stored as.
ItemRow(inst) ==
  [invoice |-> inst.invoice, stock |-> inst.stock, quantity |-> inst.quantity,
   price |-> inst.price, discount |-> inst.discount, gst |-> inst.gst]

\* Mutant of Deducted: the deduction is not floored at 0.
DeductedNoFloor(q, n) == q - n
\* max(0, (stock.quantity or 0) - n)
Deducted(q, n) == Max(0, q - n)

\* (stock.quantity or 0) + n
Restored(q, n) == q + n

\* pre_save: snapshot the persisted row of an instance that has one. The
\* entry's 'stock' is the Stock row stock_id names, read in this save; nothing
\* writes a Stock between pre_save and post_save, so its quantity is the one
\* the database holds when post_save uses it.
track_old_invoice_item_values(db, inst) ==
  IF inst.pk # None /\ db.items[inst.pk] # NoRow
  THEN LET old == db.items[inst.pk] IN
       [db EXCEPT !.oldValues[inst.pk] =
          [stock_id |-> old.stock, quantity |-> old.quantity]]
  ELSE db

\* post_save, created: deduct the item's quantity from its Stock.
adjust_created(db, inst) ==
  [db EXCEPT !.stockQty[inst.stock] = Deducted(inst.stock_quantity, inst.quantity),
             !.clamped = db.clamped \/ inst.stock_quantity < inst.quantity]

\* Mutant of adjust_updated: the new quantity is deducted in full, not the
\* change of quantity.
adjust_updated_full(db, inst) ==
  LET old_values == db.oldValues[inst.pk]
      popped == [db EXCEPT !.oldValues[inst.pk] = NoRow]
  IN IF old_values = NoRow THEN popped
     ELSE [popped EXCEPT
             !.stockQty[inst.stock] = Deducted(inst.stock_quantity, inst.quantity),
             !.clamped = db.clamped \/ inst.stock_quantity < inst.quantity]

\* post_save, not created: return the old quantity to a Stock the item left,
\* then deduct the change of quantity from the Stock it has now.
adjust_updated(db, inst) ==
  LET old_values == db.oldValues[inst.pk]
      popped == [db EXCEPT !.oldValues[inst.pk] = NoRow]
  IN IF old_values = NoRow THEN popped
     ELSE LET old_qty == old_values.quantity
              new_qty == inst.quantity
              moved == old_values.stock_id # None
                       /\ old_values.stock_id # inst.stock
              returned ==
                IF moved
                THEN [popped EXCEPT !.stockQty[old_values.stock_id] =
                        Restored(db.stockQty[old_values.stock_id], old_qty)]
                ELSE popped
              qty_diff == new_qty - old_qty
          IN IF qty_diff # 0
             THEN [returned EXCEPT
                     !.stockQty[inst.stock] = Deducted(inst.stock_quantity, qty_diff),
                     !.clamped = db.clamped \/ inst.stock_quantity < qty_diff]
             ELSE returned

\* Mutant of adjust_stock_on_invoice_item_save: an item without a stock
\* reference is charged to the first Stock row.
adjust_save_default_stock(db, inst, created) ==
  LET charged == IF inst.stock = None
                 THEN [inst EXCEPT !.stock = 1, !.stock_quantity = db.stockQty[1]]
                 ELSE inst
  IN IF created THEN adjust_created(db, charged) ELSE adjust_updated(db, charged)

\* post_save of InvoiceItem.
adjust_stock_on_invoice_item_save(db, inst, created) ==
  IF inst.stock = None THEN db
  ELSE IF created THEN adjust_created(db, inst)
  ELSE adjust_updated(db, inst)

\* Mutant of adjust_stock_on_invoice_item_delete: nothing is returned.
adjust_delete_skipped(db, inst) == db

\* post_delete of InvoiceItem.
adjust_stock_on_invoice_item_delete(db, inst) ==
  IF inst.stock # None
  THEN [db EXCEPT !.stockQty[inst.stock] = Restored(inst.stock_quantity, inst.quantity)]
  ELSE db

\* InvoiceItem.save(): pre_save, INSERT or UPDATE, post_save.
ItemSave(db, inst) ==
  LET tracked == track_old_invoice_item_values(db, inst)
      created == inst.pk = None \/ db.items[inst.pk] = NoRow
      pk == IF inst.pk = None THEN db.nextItemPk ELSE inst.pk
      stored == [tracked EXCEPT
                   !.items[pk] = ItemRow(inst),
                   !.nextItemPk = IF inst.pk = None THEN @ + 1 ELSE @]
  IN adjust_stock_on_invoice_item_save(stored, [inst EXCEPT !.pk = pk], created)

\* InvoiceItem.delete(): DELETE, post_delete.
ItemDelete(db, inst) ==
  adjust_stock_on_invoice_item_delete([db EXCEPT !.items[inst.pk] = NoRow], inst)

\* ------------------------------------------------------ pricing and totals

\* Mutant of Quantize: halves are rounded up.
QuantizeHalfUp(n, d) == (2 * n + d) \div (2 * d)
\* Decimal.quantize(Decimal("0.01")) of n/d for n >= 0, under the default
\* context's ROUND_HALF_EVEN.
Quantize(n, d) ==
  LET q == n \div d
      r == n % d
  IN IF 2 * r < d THEN q
     ELSE IF 2 * r > d THEN q + 1
     ELSE IF q % 2 = 0 THEN q ELSE q + 1

\* Mutant of DiscountedTotal: the discounted amount is not floored at 0.
DiscountedTotalNoFloor(base, discount, gst) ==
  Quantize((base - discount) * (10000 + gst), 10000)
\* (discounted * (1 + gst/100)).quantize(0.01), with discounted floored at 0.
DiscountedTotal(base, discount, gst) ==
  Quantize(Max(base - discount, 0) * (10000 + gst), 10000)

\* InvoiceItem.total and QuotationItem.total.
ItemTotal(row) == DiscountedTotal(row.quantity * row.price, row.discount, row.gst)

\* The primary keys of the rows of a table whose field is value: the related
\* manager's items.all().
RowsOf(table, field, value) ==
  {pk \in DOMAIN table : table[pk] # NoRow /\ table[pk][field] = value}

RECURSIVE SumTotals(_, _)
SumTotals(table, pks) ==
  IF pks = {} THEN 0
  ELSE LET pk == CHOOSE x \in pks : TRUE
       IN ItemTotal(table[pk]) + SumTotals(table, pks \ {pk})

\* Invoice.calculate_total_with_items
InvoiceItemTotal(its, inv) ==
  SumTotals(its, RowsOf(its, "invoice", inv))

\* Quotation.calculate_total_with_items
QuotationItemTotal(qits, q) ==
  SumTotals(qits, RowsOf(qits, "quotation", q))

\* ---------------------------------------------------------- invoice numbers

\* An invoice number INV-<year>-<seq>; the empty string is NoNumber.
NoNumber == [year |-> 0, seq |-> 0]

RECURSIVE Digits(_)
Digits(n) == IF n < 10 THEN <<n>> ELSE Append(Digits(n \div 10), n % 10)

RECURSIVE ZeroPad(_, _)
ZeroPad(ds, width) == IF Len(ds) >= width THEN ds ELSE ZeroPad(<<0>> \o ds, width)

\* The width of the sequence number: f"{seq_number:04d}".
SeqWidth == 4
SeqText(n) == ZeroPad(Digits(n), SeqWidth)

\* a < b in the order of strings.
RECURSIVE TextLess(_, _)
TextLess(a, b) ==
  IF a = <<>> THEN b # <<>>
  ELSE IF b = <<>> THEN FALSE
  ELSE IF Head(a) # Head(b) THEN Head(a) < Head(b)
  ELSE TextLess(Tail(a), Tail(b))

\* Invoice.objects.filter(invoice_no__startswith=year_prefix)
\*   .order_by('invoice_no').last(), as its sequence number; 0 when none.
LastSeq(invs, yr) ==
  LET same == {pk \in InvoicePks : invs[pk] # NoRow /\ invs[pk].invoice_no.year = yr}
  IN IF same = {} THEN 0
     ELSE LET lastPk == CHOOSE pk \in same :
                \A o \in same : o = pk \/ TextLess(SeqText(invs[o].invoice_no.seq),
                                                   SeqText(invs[pk].invoice_no.seq))
          IN invs[lastPk].invoice_no.seq

NextInvoiceNo(invs, yr) == [year |-> yr, seq |-> LastSeq(invs, yr) + 1]

\* ------------------------------------------------------------ Invoice.save

InvoiceDb == [invoices |-> invoices, nextInvoicePk |-> nextInvoicePk]

\* An Invoice instance in memory; pk is None before the first save.
InvoiceInstance(pk, row) == [pk |-> pk, row |-> row]

NewInvoiceRow(terms, status) ==
  [invoice_no |-> NoNumber, discount |-> terms.discount, gst |-> terms.gst,
   advance_amount |-> terms.advance_amount, total_amount |-> 0, balance |-> 0,
   payment_status |-> status]

\* Mutant of Balance: the balance is floored at 0.
BalanceFloored(total, advance) == Max(total - advance, 0)
\* (total_amount - (advance_amount or 0)).quantize(0.01)
Balance(total, advance) == total - advance

\* Mutant of Derived: the items are added to the stored total.
DerivedAccumulated(its, pk, row) ==
  LET total == DiscountedTotal(row.total_amount + InvoiceItemTotal(its, pk),
                               row.discount, row.gst)
  IN [row EXCEPT !.total_amount = total,
                 !.balance = Balance(total, row.advance_amount)]

\* The total and balance Invoice.save derives for a row from the items stored.
Derived(its, pk, row) ==
  LET total == DiscountedTotal(InvoiceItemTotal(its, pk), row.discount, row.gst)
  IN [row EXCEPT !.total_amount = total,
                 !.balance = Balance(total, row.advance_amount)]

\* Mutant of InvoiceSave: the invoice is numbered on every save.
InvoiceSaveRenumbered(idb, its, inst, yr) ==
  LET pk == IF inst.pk = None THEN idb.nextInvoicePk ELSE inst.pk
      numbered == [inst.row EXCEPT !.invoice_no = NextInvoiceNo(idb.invoices, yr)]
      row == Derived(its, pk, numbered)
  IN [db |-> [idb EXCEPT !.invoices[pk] = row,
                         !.nextInvoicePk = IF inst.pk = None THEN @ + 1 ELSE @],
      inst |-> InvoiceInstance(pk, row)]

\* Invoice.save(): number the invoice if it has no number, store the
\* instance's fields, then derive total_amount and balance and store them.
\* Gives the database and the instance as they are afterwards.
InvoiceSave(idb, its, inst, yr) ==
  LET pk == IF inst.pk = None THEN idb.nextInvoicePk ELSE inst.pk
      numbered == IF inst.row.invoice_no = NoNumber
                  THEN [inst.row EXCEPT !.invoice_no = NextInvoiceNo(idb.invoices, yr)]
                  ELSE inst.row
      row == Derived(its, pk, numbered)
  IN [db |-> [idb EXCEPT !.invoices[pk] = row,
                         !.nextInvoicePk = IF inst.pk = None THEN @ + 1 ELSE @],
      inst |-> InvoiceInstance(pk, row)]

\* Mutant of NumberFree: invoice_no is not unique.
NumberFreeAlways(idb, inst, yr) == TRUE

\* invoice_no is unique: a save that stores a number another row has raises.
NumberFree(idb, inst, yr) ==
  LET no == IF inst.row.invoice_no = NoNumber
            THEN NextInvoiceNo(idb.invoices, yr) ELSE inst.row.invoice_no
  IN \A o \in InvoicePks :
       (idb.invoices[o] # NoRow /\ o # inst.pk) => idb.invoices[o].invoice_no # no

\* ----------------------------------------------------------------- states

\* The state after migration and the loading of the Stock rows, holding the
\* invoices invs under the first primary keys, with l the record of the last
\* operation.
InitOf(invs, l) ==
  /\ stockQty = [s \in Stocks |-> InitQty]
  /\ initQty = stockQty
  /\ audit = <<>>
  /\ requests = [r \in Requests |-> Idle]
  /\ paidBefore = {}
  /\ assigned = {invs[pk].invoice_no : pk \in {o \in InvoicePks : invs[o] # NoRow}}
  /\ items = [pk \in ItemPks |-> NoRow]
  /\ nextItemPk = 1
  /\ oldValues = [pk \in ItemPks |-> NoRow]
  /\ invoices = invs
  /\ nextInvoicePk = 1 + Cardinality({pk \in InvoicePks : invs[pk] # NoRow})
  /\ quotations = [pk \in QuotationPks |-> NoRow]
  /\ nextQuotationPk = 1
  /\ qitems = [pk \in QItemPks |-> NoRow]
  /\ nextQItemPk = 1
  /\ finance = <<>>
  /\ year = BaseYear
  /\ clamped = FALSE
  /\ rerouted = FALSE
  /\ last = l

\* No invoice has been saved.
InitWith(l) == InitOf([pk \in InvoicePks |-> NoRow], l)

Init ==
  InitWith([op |-> "init", pk |-> None, old |-> NoRow, req |-> NoRow,
            floored |-> FALSE])

\* The record of an operation on row pk, whose row was old before it and
\* which asked for the row req, and of whether it floored a deduction at 0.
LastOp(op, pk, old, req, db) ==
  [op |-> op, pk |-> pk, old |-> old, req |-> req, floored |-> db.clamped]

\* The quantity of the Stock object a freshly read reference s carries.
SeenNow(s) == IF s = None THEN 0 ELSE stockQty[s]

WithinCap(db) == \A s \in Stocks : db.stockQty[s] <= QtyCap

\* The database with the floored flag of the operation cleared.
FreshDb == [StockDb EXCEPT !.clamped = FALSE]

SetStockDb(db) ==
  /\ stockQty' = db.stockQty
  /\ items' = db.items
  /\ nextItemPk' = db.nextItemPk
  /\ oldValues' = db.oldValues
  /\ clamped' = (clamped \/ db.clamped)

\* --------------------------------------- operations on single rows (the ORM)

\* The instance of an invoice form or of a caller that sets terms and status:
\* a new one (pk = None) or the stored row with these fields set.
TermedInvoice(pk, terms, status) ==
  IF pk = None
  THEN InvoiceInstance(None, NewInvoiceRow(terms, status))
  ELSE InvoiceInstance(pk,
         [invoices[pk] EXCEPT !.discount = terms.discount,
                              !.gst = terms.gst,
                              !.advance_amount = terms.advance_amount,
                              !.payment_status = status])

\* What an operation on a document asked for: how many lines it acted on and
\* whether it set the fields the document already had.
DocRequest(nforms, same) == [forms |-> nforms, same |-> same]

\* invoice.save() of a new invoice (pk = None) or of a stored one.
SaveInvoice(pk, terms, status) ==
  /\ IF pk = None THEN nextInvoicePk <= MaxInvoicePk ELSE invoices[pk] # NoRow
  /\ \E inst \in {TermedInvoice(pk, terms, status)} :
       /\ NumberFree(InvoiceDb, inst, year)
       /\ \E saved \in {InvoiceSave(InvoiceDb, items, inst, year)} :
            /\ invoices' = saved.db.invoices
            /\ nextInvoicePk' = saved.db.nextInvoicePk
            /\ assigned' = assigned \cup {saved.inst.row.invoice_no}
            /\ last' = LastOp("Invoice.save", saved.inst.pk, NoRow,
                              DocRequest(0, pk # None /\ inst.row = invoices[pk]),
                              [clamped |-> FALSE])
  /\ UNCHANGED <<stockVars, quotationVars, finance, year, initQty, requests,
                 audit, paidBefore, clamped, rerouted>>

\* InvoiceItem(...).save() of a new item of invoice inv.
CreateItem(inv, s, n, p) ==
  /\ nextItemPk <= MaxItemPk
  /\ invoices[inv] # NoRow
  /\ \E inst \in {ItemInstance(None, inv, s, SeenNow(s), n, p)} :
     \E db \in {ItemSave(FreshDb, inst)} :
     /\ WithinCap(db)
     /\ SetStockDb(db)
     /\ last' = LastOp("create", nextItemPk, NoRow, ItemRow(inst), db)
     /\ UNCHANGED <<invoiceVars, quotationVars, year, initQty, requests,
                    assigned, audit, paidBefore, rerouted>>

\* item.save() of a stored item whose stock, quantity and pricing were set.
UpdateItem(pk, s, n, p) ==
  /\ items[pk] # NoRow
  /\ \E inst \in {ItemInstance(pk, items[pk].invoice, s, SeenNow(s), n, p)} :
     \E db \in {ItemSave(FreshDb, inst)} :
     /\ WithinCap(db)
     /\ SetStockDb(db)
     /\ last' = LastOp("update", pk, items[pk], ItemRow(inst), db)
     /\ rerouted' = (rerouted \/ items[pk].stock # s)
     /\ UNCHANGED <<invoiceVars, quotationVars, year, initQty, requests,
                    assigned, audit, paidBefore>>

\* item.delete() of a stored item.
DeleteItem(pk) ==
  /\ items[pk] # NoRow
  /\ \E row \in {items[pk]} :
     \E db \in {ItemDelete(FreshDb,
                   ItemInstance(pk, row.invoice, row.stock, SeenNow(row.stock),
                                row.quantity, row))} :
     /\ WithinCap(db)
     /\ SetStockDb(db)
     /\ last' = LastOp("delete", pk, row, NoRow, db)
     /\ UNCHANGED <<invoiceVars, quotationVars, year, initQty, requests,
                    assigned, audit, paidBefore, rerouted>>

\* The item lifecycle: invoices with default terms and their items.
Next ==
  \/ (nextInvoicePk = 1 /\ SaveInvoice(None, DefaultTerms, "UNPAID"))
  \/ \E inv \in InvoicePks, s \in StockRefs, n \in Qtys : CreateItem(inv, s, n, DefaultPricing)
  \/ \E pk \in ItemPks, s \in StockRefs, n \in Qtys : UpdateItem(pk, s, n, DefaultPricing)
  \/ \E pk \in ItemPks : DeleteItem(pk)

Spec == Init /\ [][Next]_vars

\* ------------------------------------------------------------ InvoiceAdmin

\* A line of the inline formset of InvoiceItemInline that the request acts
\* on: a stored item to delete or to change, or a new item (pk = None).
\* Stored items the request leaves as they are have forms that did not
\* change; the formset does not save them.
ItemForm(pk, delete, s, n, p) ==
  [pk |-> pk, delete |-> delete, stock |-> s, quantity |-> n,
   price |-> p.price, discount |-> p.discount, gst |-> p.gst]

\* The forms a request can hold for one line, over the given stock references
\* and pricings.
FormChoices(refs, pricings) ==
  {ItemForm(pk, FALSE, s, n, p) :
     pk \in ItemPks \cup {None}, s \in refs, n \in Qtys, p \in pricings}
  \cup {ItemForm(pk, TRUE, None, 1, DefaultPricing) : pk \in ItemPks}

\* The formsets of at most k lines: the stored items first, by primary key,
\* then the new ones.
FormSets(choices, k) ==
  {<<>>} \cup UNION {
    {fs \in [1..len -> choices] :
       \A i \in 1..(len - 1) :
         \/ fs[i].pk # None /\ fs[i + 1].pk = None
         \/ fs[i].pk # None /\ fs[i + 1].pk # None /\ fs[i].pk < fs[i + 1].pk
         \/ fs[i].pk = None /\ fs[i + 1].pk = None}
    : len \in 1..k}

\* The row a form asks for.
FormRow(inv, f) ==
  [invoice |-> inv, stock |-> f.stock, quantity |-> f.quantity,
   price |-> f.price, discount |-> f.discount, gst |-> f.gst]

\* The stored items of the formset belong to the invoice, and the new ones
\* have primary keys left.
FormSetFits(db, inv, forms) ==
  /\ \A i \in 1..Len(forms) :
       forms[i].pk # None =>
         db.items[forms[i].pk] # NoRow /\ db.items[forms[i].pk].invoice = inv
  /\ db.nextItemPk + Cardinality({i \in 1..Len(forms) : forms[i].pk = None}) - 1
       <= MaxItemPk
  \* a changed form differs from the stored row
  /\ \A i \in 1..Len(forms) :
       (forms[i].pk # None /\ ~forms[i].delete) =>
         FormRow(inv, forms[i]) # db.items[forms[i].pk]

\* The instance a form holds once the formset is validated. Its Stock object
\* was read by the form's stock field during validation, before any form of
\* the request was saved: seen holds the quantities of that moment. A form to
\* delete holds the stored row.
FormInstance(db, seen, inv, f) ==
  LET src == IF f.delete THEN db.items[f.pk] ELSE f
  IN [pk |-> f.pk, invoice |-> inv, stock |-> src.stock,
      stock_quantity |-> IF src.stock = None THEN 0 ELSE seen[src.stock],
      quantity |-> src.quantity, price |-> src.price,
      discount |-> src.discount, gst |-> src.gst]

\* formset.save(): the stored items in order, deleted or saved, then the new.
RECURSIVE SaveFormSet(_, _, _, _)
SaveFormSet(db, seen, inv, forms) ==
  IF forms = <<>> THEN db
  ELSE LET f == Head(forms)
           inst == FormInstance(db, seen, inv, f)
           done == IF f.delete THEN ItemDelete(db, inst) ELSE ItemSave(db, inst)
       IN SaveFormSet(done, seen, inv, Tail(forms))

\* a is a prefix of b.
IsPrefix(a, b) == Len(a) <= Len(b) /\ SubSeq(b, 1, Len(a)) = a

\* description__contains=f"Invoice {invoice_no}" for a description
\* f"Invoice {no} - {customer_name}": the text after "Invoice " starts with
\* invoice_no (customer names hold no invoice numbers).
DescriptionContains(description, invoice_no) ==
  /\ description.year = invoice_no.year
  /\ IsPrefix(SeqText(invoice_no.seq), SeqText(description.seq))

\* Mutant of CreditExists: the lookup never matches.
CreditExistsNever(fin, row) == FALSE

\* Mutant of CreditExists: the amount is not part of the lookup.
CreditExistsAnyAmount(fin, row) ==
  \E i \in 1..Len(fin) :
    /\ fin[i].transaction_type = "CREDIT"
    /\ DescriptionContains(fin[i].description, row.invoice_no)

\* Finance.objects.filter(transaction_type="CREDIT", amount=total_amount,
\*                        description__contains=...).exists()
CreditExists(fin, row) ==
  \E i \in 1..Len(fin) :
    /\ fin[i].transaction_type = "CREDIT"
    /\ fin[i].amount = row.total_amount
    /\ DescriptionContains(fin[i].description, row.invoice_no)

\* The condition of save_related's posting: the invoice in memory is PAID
\* with a total and the lookup finds no CREDIT for it.
PostWanted(fin, row) ==
  row.payment_status = "PAID" /\ row.total_amount > 0 /\ ~CreditExists(fin, row)

\* Mutant of FinanceCreate: the lookup is made again when the row is created.
FinanceCreateRechecked(fin, row) ==
  IF CreditExists(fin, row) THEN fin
  ELSE Append(fin, [transaction_type |-> "CREDIT", amount |-> row.total_amount,
                    description |-> row.invoice_no])

\* Finance.objects.create(transaction_type="CREDIT", amount=total_amount,
\*                        description=f"Invoice {invoice_no} - ...")
FinanceCreate(fin, row) ==
  Append(fin, [transaction_type |-> "CREDIT", amount |-> row.total_amount,
               description |-> row.invoice_no])

\* Mutant of PostCredit: the row is posted whatever the status and the total.
PostCreditUnconditional(fin, row) ==
  IF ~CreditExists(fin, row)
  THEN Append(fin, [transaction_type |-> "CREDIT", amount |-> row.total_amount,
                    description |-> row.invoice_no])
  ELSE fin

\* The Finance rows after save_related has looked at the saved invoice.
PostCredit(fin, row) ==
  IF PostWanted(fin, row) THEN FinanceCreate(fin, row) ELSE fin

\* InvoiceAdmin.save_model: ModelAdmin.save_model saves the object, and it is
\* saved once more.
save_model(idb, its, inst, yr) ==
  LET first == InvoiceSave(idb, its, inst, yr)
  IN InvoiceSave(first.db, its, first.inst, yr)

\* Mutant of save_related: the invoice is not saved again after its items.
save_related_no_resave(sdb, idb, fin, seen, inst, forms, yr) ==
  [sdb |-> SaveFormSet(sdb, seen, inst.pk, forms), idb |-> idb,
   finance |-> PostCredit(fin, inst.row)]

\* InvoiceAdmin.save_related: the formset is saved, the invoice is saved
\* again, and a PAID invoice with a total is posted to Finance.
save_related(sdb, idb, fin, seen, inst, forms, yr) ==
  LET saved == SaveFormSet(sdb, seen, inst.pk, forms)
      again == InvoiceSave(idb, saved.items, inst, yr)
  IN [sdb |-> saved, idb |-> again.db,
      finance |-> PostCredit(fin, again.inst.row)]

\* The add or change view of InvoiceAdmin: the invoice form's terms and
\* status and the inline formset are validated, then save_model and
\* save_related run. pk = None adds an invoice.
AdminSaveInvoice(pk, terms, status, forms) ==
  /\ IF pk = None THEN nextInvoicePk <= MaxInvoicePk ELSE invoices[pk] # NoRow
  /\ \E inst \in {TermedInvoice(pk, terms, status)} :
       /\ NumberFree(InvoiceDb, inst, year)
       /\ \E model \in {save_model(InvoiceDb, items, inst, year)} :
            /\ FormSetFits(StockDb, model.inst.pk, forms)
            /\ \E related \in {save_related(FreshDb, model.db, finance, stockQty,
                                            model.inst, forms, year)} :
                 /\ WithinCap(related.sdb)
                 /\ Len(related.finance) <= MaxFinance
                 /\ SetStockDb(related.sdb)
                 /\ invoices' = related.idb.invoices
                 /\ nextInvoicePk' = related.idb.nextInvoicePk
                 /\ assigned' = assigned \cup {model.inst.row.invoice_no}
                 /\ finance' = related.finance
                 /\ paidBefore' =
                      (IF /\ related.idb.invoices[model.inst.pk].payment_status = "PAID"
                          /\ related.idb.invoices[model.inst.pk].total_amount > 0
                       THEN paidBefore \cup {model.inst.pk} ELSE paidBefore)
                 /\ rerouted' = (rerouted \/ \E i \in 1..Len(forms) :
                                   /\ forms[i].pk # None /\ ~forms[i].delete
                                   /\ items[forms[i].pk].stock # forms[i].stock)
                 /\ last' = LastOp("save_related", model.inst.pk, NoRow,
                                   DocRequest(Len(forms),
                                              pk # None /\ inst.row = invoices[pk]),
                                   related.sdb)
  /\ UNCHANGED <<quotationVars, year, initQty, requests, audit>>

\* ------------------------------------------------- requests that interleave

\* The requests below run the same code as SaveInvoice and AdminSaveInvoice,
\* one database statement group at a time, so that the statements of another
\* request can come in between. Nothing in the code serialises them.

SetRequest(r, held) == requests' = [requests EXCEPT ![r] = held]

\* Invoice.save() of a new invoice in request r, up to the number it composes
\* from the highest number stored at this moment.
SaveNumber(r, terms, status) ==
  /\ requests[r] = Idle
  /\ nextInvoicePk <= MaxInvoicePk
  /\ \E no \in {NextInvoiceNo(invoices, year)} :
       /\ SetRequest(r, [pc |-> "numbered",
                         inst |-> InvoiceInstance(None,
                                    [NewInvoiceRow(terms, status)
                                       EXCEPT !.invoice_no = no])])
       /\ last' = LastOp("Invoice.save: numbered", None, NoRow,
                         [invoice_no |-> no, request |-> r], [clamped |-> FALSE])
  /\ UNCHANGED <<stockVars, invoiceVars, quotationVars, year, initQty, assigned,
                 audit, paidBefore, clamped, rerouted>>

\* The rest of that save: the INSERT of the numbered instance, which the
\* unique invoice_no lets through, and the totals.
SaveInsert(r) ==
  /\ requests[r].pc = "numbered"
  /\ nextInvoicePk <= MaxInvoicePk
  /\ NumberFree(InvoiceDb, requests[r].inst, year)
  /\ \E saved \in {InvoiceSave(InvoiceDb, items, requests[r].inst, year)} :
       /\ invoices' = saved.db.invoices
       /\ nextInvoicePk' = saved.db.nextInvoicePk
       /\ assigned' = assigned \cup {saved.inst.row.invoice_no}
       /\ last' = LastOp("Invoice.save", saved.inst.pk, NoRow,
                         DocRequest(0, FALSE), [clamped |-> FALSE])
  /\ SetRequest(r, Idle)
  /\ UNCHANGED <<stockVars, quotationVars, finance, year, initQty, audit,
                 paidBefore, clamped, rerouted>>

\* The INSERT of a numbered instance whose number a row has by now: save()
\* raises IntegrityError and nothing is stored.
SaveInsertRaises(r) ==
  /\ requests[r].pc = "numbered"
  /\ ~NumberFree(InvoiceDb, requests[r].inst, year)
  /\ last' = LastOp("IntegrityError", None, NoRow,
                    [invoice_no |-> requests[r].inst.row.invoice_no,
                     request |-> r],
                    [clamped |-> FALSE])
  /\ SetRequest(r, Idle)
  /\ UNCHANGED <<stockVars, invoiceVars, quotationVars, year, initQty, assigned,
                 audit, paidBefore, clamped, rerouted>>

\* The change view of InvoiceAdmin for a stored invoice in request r, with
\* no line of the formset changed: save_model, then save_related up to the
\* second save of the invoice. The request holds the saved instance.
AdminSaveSaved(r, pk, terms, status) ==
  /\ requests[r] = Idle
  /\ invoices[pk] # NoRow
  /\ \E model \in {save_model(InvoiceDb, items, TermedInvoice(pk, terms, status),
                               year)} :
     \E again \in {InvoiceSave(model.db, items, model.inst, year)} :
       /\ invoices' = again.db.invoices
       /\ SetRequest(r, [pc |-> "saved", inst |-> again.inst])
       /\ paidBefore' =
            (IF /\ again.inst.row.payment_status = "PAID"
                /\ again.inst.row.total_amount > 0
             THEN paidBefore \cup {pk} ELSE paidBefore)
       /\ last' = LastOp("save_related: saved", pk, NoRow,
                         [request |-> r], [clamped |-> FALSE])
  /\ UNCHANGED <<stockVars, nextInvoicePk, finance, quotationVars, year, initQty,
                 assigned, audit, clamped, rerouted>>

\* save_related's test of the invoice it holds and its lookup of a CREDIT: the
\* request goes on to create the row, or ends.
AdminSaveChecked(r) ==
  /\ requests[r].pc = "saved"
  /\ \E wanted \in {PostWanted(finance, requests[r].inst.row)} :
       /\ SetRequest(r, IF wanted THEN [requests[r] EXCEPT !.pc = "create"]
                        ELSE Idle)
       /\ last' = LastOp("save_related: checked", requests[r].inst.pk, NoRow,
                         [request |-> r, wanted |-> wanted], [clamped |-> FALSE])
  /\ UNCHANGED <<stockVars, invoiceVars, quotationVars, year, initQty, assigned,
                 audit, paidBefore, clamped, rerouted>>

\* save_related's Finance.objects.create for the invoice the request holds.
AdminSaveCreate(r) ==
  /\ requests[r].pc = "create"
  /\ \E fin \in {FinanceCreate(finance, requests[r].inst.row)} :
       /\ Len(fin) <= MaxFinance
       /\ finance' = fin
  /\ SetRequest(r, Idle)
  /\ last' = LastOp("Finance.create", requests[r].inst.pk, NoRow,
                    [request |-> r, row |-> requests[r].inst.row],
                    [clamped |-> FALSE])
  /\ UNCHANGED <<stockVars, invoices, nextInvoicePk, quotationVars, year,
                 initQty, assigned, audit, paidBefore, clamped, rerouted>>

\* ---------------------------------------------------------------- Quotation

QuotationDb == [quotations |-> quotations, nextQuotationPk |-> nextQuotationPk,
                qitems |-> qitems, nextQItemPk |-> nextQItemPk]

NewQuotationRow(terms) ==
  [discount |-> terms.discount, gst |-> terms.gst, total |-> 0]

\* The instance of a quotation form that sets the terms.
TermedQuotation(pk, terms) ==
  IF pk = None
  THEN [pk |-> None, row |-> NewQuotationRow(terms)]
  ELSE [pk |-> pk, row |-> [quotations[pk] EXCEPT !.discount = terms.discount,
                                                  !.gst = terms.gst]]

\* Mutant of QuotationDerived: the items are added to the stored total.
QuotationDerivedAccumulated(qits, pk, row) ==
  [row EXCEPT !.total =
     DiscountedTotal(row.total + QuotationItemTotal(qits, pk), row.discount, row.gst)]

\* The total Quotation.save derives for a row from the items stored.
QuotationDerived(qits, pk, row) ==
  [row EXCEPT !.total =
     DiscountedTotal(QuotationItemTotal(qits, pk), row.discount, row.gst)]

\* Quotation.save(): store the instance's fields, then derive the total and
\* store it. Gives the database and the instance as they are afterwards.
QuotationSave(qdb, inst) ==
  LET pk == IF inst.pk = None THEN qdb.nextQuotationPk ELSE inst.pk
      row == QuotationDerived(qdb.qitems, pk, inst.row)
  IN [db |-> [qdb EXCEPT !.quotations[pk] = row,
                         !.nextQuotationPk = IF inst.pk = None THEN @ + 1 ELSE @],
      inst |-> [pk |-> pk, row |-> row]]

\* A line of the inline formset of QuotationItemInline that the request acts on.
QItemForm(pk, delete, n, p) ==
  [pk |-> pk, delete |-> delete, quantity |-> n,
   price |-> p.price, discount |-> p.discount, gst |-> p.gst]

QFormChoices(pricings) ==
  {QItemForm(pk, FALSE, n, p) : pk \in QItemPks \cup {None}, n \in Qtys, p \in pricings}
  \cup {QItemForm(pk, TRUE, 1, DefaultPricing) : pk \in QItemPks}

QFormRow(q, f) ==
  [quotation |-> q, quantity |-> f.quantity, price |-> f.price,
   discount |-> f.discount, gst |-> f.gst]

QFormSetFits(qdb, q, forms) ==
  /\ \A i \in 1..Len(forms) :
       forms[i].pk # None =>
         qdb.qitems[forms[i].pk] # NoRow /\ qdb.qitems[forms[i].pk].quotation = q
  /\ qdb.nextQItemPk + Cardinality({i \in 1..Len(forms) : forms[i].pk = None}) - 1
       <= MaxQItemPk
  /\ \A i \in 1..Len(forms) :
       (forms[i].pk # None /\ ~forms[i].delete) =>
         QFormRow(q, forms[i]) # qdb.qitems[forms[i].pk]

\* formset.save() of the quotation's lines; QuotationItem has no signal
\* handlers.
RECURSIVE SaveQFormSet(_, _, _)
SaveQFormSet(qdb, q, forms) ==
  IF forms = <<>> THEN qdb
  ELSE LET f == Head(forms)
           done == IF f.delete THEN [qdb EXCEPT !.qitems[f.pk] = NoRow]
                   ELSE IF f.pk # None
                   THEN [qdb EXCEPT !.qitems[f.pk] = QFormRow(q, f)]
                   ELSE [qdb EXCEPT !.qitems[qdb.nextQItemPk] = QFormRow(q, f),
                                    !.nextQItemPk = @ + 1]
       IN SaveQFormSet(done, q, Tail(forms))

\* QuotationAdmin.save_model
quotation_save_model(qdb, inst) ==
  LET first == QuotationSave(qdb, inst) IN QuotationSave(first.db, first.inst)

\* QuotationAdmin.save_related
quotation_save_related(qdb, inst, forms) ==
  QuotationSave(SaveQFormSet(qdb, inst.pk, forms), inst).db

SetQuotationDb(qdb) ==
  /\ quotations' = qdb.quotations
  /\ nextQuotationPk' = qdb.nextQuotationPk
  /\ qitems' = qdb.qitems
  /\ nextQItemPk' = qdb.nextQItemPk

\* quotation.save() of a new quotation (pk = None) or of a stored one.
SaveQuotation(pk, terms) ==
  /\ IF pk = None THEN nextQuotationPk <= MaxQuotationPk ELSE quotations[pk] # NoRow
  /\ \E inst \in {TermedQuotation(pk, terms)} :
     \E saved \in {QuotationSave(QuotationDb, inst)} :
       /\ SetQuotationDb(saved.db)
       /\ last' = LastOp("Quotation.save", saved.inst.pk, NoRow,
                         DocRequest(0, pk # None /\ inst.row = quotations[pk]),
                         [clamped |-> FALSE])
  /\ UNCHANGED <<stockVars, invoiceVars, year, initQty, requests, assigned,
                 audit, paidBefore, clamped, rerouted>>

\* The add or change view of QuotationAdmin.
AdminSaveQuotation(pk, terms, forms) ==
  /\ IF pk = None THEN nextQuotationPk <= MaxQuotationPk ELSE quotations[pk] # NoRow
  /\ \E inst \in {TermedQuotation(pk, terms)} :
     \E model \in {quotation_save_model(QuotationDb, inst)} :
       /\ QFormSetFits(QuotationDb, model.inst.pk, forms)
       /\ SetQuotationDb(quotation_save_related(model.db, model.inst, forms))
       /\ last' = LastOp("quotation save_related", model.inst.pk, NoRow,
                         DocRequest(Len(forms), pk # None /\ inst.row = quotations[pk]),
                         [clamped |-> FALSE])
  /\ UNCHANGED <<stockVars, invoiceVars, year, initQty, requests, assigned,
                 audit, paidBefore, clamped, rerouted>>

\* ------------------------------------------------- claims: stock quantities

\* The sum of the quantities of the rows pks of a table of items.
RECURSIVE SumQuantity(_, _)
SumQuantity(table, pks) ==
  IF pks = {} THEN 0
  ELSE LET pk == CHOOSE x \in pks : TRUE
       IN table[pk].quantity + SumQuantity(table, pks \ {pk})

\* The quantity the items of a table hold of Stock s.
HeldOf(table, s) ==
  SumQuantity(table, RowsOf(table, "stock", s))

\* The step is operation op on an item.
IsStep(op) == last'.op = op
\* The pk of the item the step acted on, its row before and its row after.
StepPk == last'.pk
StepOld == last'.old
StepNew == items'[last'.pk]

OtherStocksUnchanged(touched) ==
  \A s \in Stocks \ touched : stockQty'[s] = stockQty[s]

\* C1: when no deduction was floored at 0, every Stock's quantity is its
\* initial quantity minus the quantities of the items that reference it now.
C1_StockReflectsItems ==
  ~clamped => \A s \in Stocks : stockQty[s] = initQty[s] - HeldOf(items, s)

\* C2: an update that moves an item from Stock A to another Stock B returns
\* the old quantity in full to A and deducts the new quantity in full from B,
\* floored at 0.
C2_MoveReturnsAndDeductsInFull ==
  [][(IsStep("update") /\ StepOld.stock # None /\ StepNew.stock # None
        /\ StepOld.stock # StepNew.stock)
     => /\ stockQty'[StepOld.stock] = stockQty[StepOld.stock] + StepOld.quantity
        /\ stockQty'[StepNew.stock] =
             Max(0, stockQty[StepNew.stock] - StepNew.quantity)]_vars

\* C3: an update that removes the stock reference returns the old quantity in
\* full to the old Stock, and an update that adds a stock reference deducts
\* the new quantity in full from the new Stock, floored at 0.
C3_AttachDetachInFull ==
  [][/\ (IsStep("update") /\ StepOld.stock # None /\ StepNew.stock = None)
          => stockQty'[StepOld.stock] = stockQty[StepOld.stock] + StepOld.quantity
     /\ (IsStep("update") /\ StepOld.stock = None /\ StepNew.stock # None)
          => stockQty'[StepNew.stock] =
               Max(0, stockQty[StepNew.stock] - StepNew.quantity)]_vars

\* C4: creating an item of quantity n on a Stock holding q stores the item as
\* requested, sets the Stock to max(0, q - n) and changes no other Stock.
C4_CreateDeductsFloored ==
  [][IsStep("create")
     => /\ StepNew = last'.req
        /\ items[StepPk] = NoRow
        /\ \A pk \in ItemPks \ {StepPk} : items'[pk] = items[pk]
        /\ StepNew.stock # None
             => /\ stockQty'[StepNew.stock] =
                     Max(0, stockQty[StepNew.stock] - StepNew.quantity)
                /\ OtherStocksUnchanged({StepNew.stock})]_vars

\* A create whose quantity exceeded the Stock's quantity has acted.
C4_Witness ==
  /\ last.op = "create"
  /\ last.floored
  /\ items[last.pk] # NoRow
  /\ items[last.pk].stock # None
  /\ stockQty[items[last.pk].stock] = 0

\* C5: an update that keeps the stock reference sets the Stock to
\* max(0, quantity - (new_qty - old_qty)) and changes no other Stock; with the
\* quantity unchanged too, no Stock changes.
C5_SameStockDeductsDelta ==
  [][(IsStep("update") /\ StepOld.stock # None /\ StepNew.stock = StepOld.stock)
     => /\ stockQty'[StepNew.stock] =
             Max(0, stockQty[StepNew.stock] - (StepNew.quantity - StepOld.quantity))
        /\ OtherStocksUnchanged({StepNew.stock})
        /\ StepNew.quantity = StepOld.quantity => stockQty' = stockQty]_vars

\* An update has raised the quantity of an item on the Stock it stays on.
C5_Witness ==
  /\ last.op = "update"
  /\ last.old.stock # None
  /\ items[last.pk].stock = last.old.stock
  /\ items[last.pk].quantity > last.old.quantity
  /\ ~last.floored
  /\ stockQty[last.old.stock] = initQty[last.old.stock] - items[last.pk].quantity

\* C6: deleting an item adds exactly its quantity to the Stock it references;
\* when no deduction was floored and no item changed its stock reference, the
\* Stock is then where it would be had the item never been created.
C6_DeleteRestores ==
  [][(IsStep("delete") /\ StepOld.stock # None)
     => /\ stockQty'[StepOld.stock] = stockQty[StepOld.stock] + StepOld.quantity
        /\ OtherStocksUnchanged({StepOld.stock})
        /\ (~clamped' /\ ~rerouted')
             => stockQty'[StepOld.stock] =
                  initQty[StepOld.stock] - HeldOf(items', StepOld.stock)]_vars

\* The only item a Stock had has been deleted, in a run without floored
\* deductions or changed references, and the Stock is back at its initial
\* quantity.
C6_Witness ==
  /\ last.op = "delete"
  /\ last.old.stock # None
  /\ ~clamped /\ ~rerouted
  /\ oldValues[last.pk] = NoRow
  /\ HeldOf(items, last.old.stock) = 0
  /\ stockQty[last.old.stock] = initQty[last.old.stock]

\* C7: no Stock quantity is ever negative.
C7_QuantityNonNegative == \A s \in Stocks : stockQty[s] >= 0

\* A deduction larger than the Stock's quantity has left the Stock at 0.
C7_Witness ==
  /\ last.floored
  /\ items[last.pk] # NoRow
  /\ items[last.pk].stock # None
  /\ stockQty[items[last.pk].stock] = 0

\* C8: creating, updating or deleting an item that has no stock reference
\* before and after leaves every Stock quantity unchanged.
C8_NoStockNoEffect ==
  [][/\ (IsStep("create") /\ StepNew.stock = None) => stockQty' = stockQty
     /\ (IsStep("update") /\ StepOld.stock = None /\ StepNew.stock = None)
          => stockQty' = stockQty
     /\ (IsStep("delete") /\ StepOld.stock = None) => stockQty' = stockQty]_vars

\* An item without a stock reference has been updated and stays without one,
\* while another item holds stock.
C8_Witness ==
  /\ last.op = "update"
  /\ last.old.stock = None
  /\ items[last.pk].stock = None
  /\ \E s \in Stocks : HeldOf(items, s) > 0

\* ----------------------------------------------- the administrative views

\* What the invoice forms of these runs enter.
AdminRefs == {1}
AdminPricings ==
  { [price |-> 5000, discount |-> 0, gst |-> 0],
    [price |-> 25, discount |-> 0, gst |-> 500] }
AdminTerms ==
  { [discount |-> 0, gst |-> 0, advance_amount |-> 0],
    [discount |-> 30, gst |-> 500, advance_amount |-> 20000] }
\* Lines one request acts on.
MaxForms == 1

NextAdmin ==
  \/ \E pk \in InvoicePks \cup {None}, terms \in AdminTerms,
        forms \in FormSets(FormChoices(AdminRefs, AdminPricings), MaxForms) :
       AdminSaveInvoice(pk, terms, "UNPAID", forms)
  \/ \E pk \in InvoicePks, terms \in AdminTerms : SaveInvoice(pk, terms, "UNPAID")

SpecAdmin == Init /\ [][NextAdmin]_vars

\* One invoice and one quotation, saved through their views and directly; the
\* lines carry no stock, which the totals do not depend on.
DocsRefs == {None}
DocsPricings == { [price |-> 25, discount |-> 0, gst |-> 500] }

NextDocs ==
  \/ \E pk \in {1, None}, terms \in AdminTerms,
        forms \in FormSets(FormChoices(DocsRefs, DocsPricings), MaxForms) :
       (pk = None => nextInvoicePk = 1) /\ AdminSaveInvoice(pk, terms, "UNPAID", forms)
  \/ \E terms \in AdminTerms : SaveInvoice(1, terms, "UNPAID")
  \/ \E pk \in QuotationPks \cup {None}, terms \in AdminTerms,
        forms \in FormSets(QFormChoices(DocsPricings), MaxForms) :
       AdminSaveQuotation(pk, terms, forms)
  \/ \E pk \in QuotationPks, terms \in AdminTerms : SaveQuotation(pk, terms)

SpecDocs == Init /\ [][NextDocs]_vars

\* --------------------------------------------------- claims: document totals

\* t hundredths is a rounding of n/d to a whole number of hundredths: no whole
\* number is nearer to n/d than t.
IsRounded(t, n, d) ==
  /\ 2 * (t * d - n) <= d
  /\ 2 * (n - t * d) <= d

StoredInvoices == {pk \in InvoicePks : invoices[pk] # NoRow}
StoredQuotations == {pk \in QuotationPks : quotations[pk] # NoRow}

IsResave ==
  /\ last'.op \in {"Invoice.save", "save_related", "Quotation.save",
                   "quotation save_related"}
  /\ last'.req.same
  /\ last'.req.forms = 0

\* C10: saving an invoice or a quotation again, with its items, discount, GST
\* and advance unchanged, stores the total (and the balance) the save before it
\* stored, and changes no other stored field.
C10_ResaveIdempotent ==
  [][IsResave => UNCHANGED <<invoices, nextInvoicePk, items, stockQty, finance,
                             quotations, nextQuotationPk, qitems>>]_vars

\* An invoice with items and a total has just been saved again unchanged,
\* next to a quotation with items and a total.
C10_Witness ==
  /\ last.op = "Invoice.save"
  /\ last.req.same
  /\ InvoiceItemTotal(items, last.pk) > 0
  /\ invoices[last.pk].total_amount > 0
  /\ \E q \in StoredQuotations :
       QuotationItemTotal(qitems, q) > 0 /\ quotations[q].total > 0

\* ------------------------------------------------------------- item totals

\* What a line can hold: quantity is a PositiveIntegerField (0 included),
\* price and discount are in paise, GST in hundredths of a percent.
TotalQuantities == 0..3
TotalPrices == {0, 50, 5000, 50000}
TotalDiscounts == {0, 50, 5000, 150000}
TotalGsts == {0, 500, 1800}
ItemKinds == {"InvoiceItem", "QuotationItem"}

\* An instance of either kind of line is at hand, not saved.
InitPricing ==
  \E kind \in ItemKinds, n \in TotalQuantities, p \in TotalPrices,
     d \in TotalDiscounts, g \in TotalGsts :
    InitWith([op |-> "instance", pk |-> None, old |-> NoRow,
              req |-> [kind |-> kind, quantity |-> n, price |-> p,
                       discount |-> d, gst |-> g],
              floored |-> FALSE])

\* instance.total is read; QuotationItem.total is the text of InvoiceItem.total.
ReadTotal ==
  /\ last.op = "instance"
  /\ last' = [last EXCEPT !.op = "total", !.old = [total |-> ItemTotal(last.req)]]
  /\ UNCHANGED <<stockVars, invoiceVars, quotationVars, year, initQty,
                 requests, assigned, audit, paidBefore, clamped, rerouted>>

NextPricing == ReadTotal

SpecPricing == InitPricing /\ [][NextPricing]_vars

\* C11: the total of an invoice line or a quotation line with quantity,
\* price, discount and GST not negative is
\* max(quantity * price - discount, 0) * (1 + gst/100) rounded to two decimals;
\* it is not negative, it is 0 when the discount is at least quantity * price,
\* and quantity 2 at 500.00 less 50.00 with 18% GST comes to 1121.00.
C11_ItemTotalFormula ==
  last.op = "total" =>
    LET r == last.req
        t == last.old.total
        base == r.quantity * r.price
    IN /\ IsRounded(t, Max(base - r.discount, 0) * (10000 + r.gst), 10000)
       /\ t >= 0
       /\ (r.discount >= base => t = 0)
       /\ (r.quantity = 2 /\ r.price = 50000 /\ r.discount = 5000 /\ r.gst = 1800
             => t = 112100)

\* The total of the quotation line of the example has been read.
C11_Witness ==
  /\ last.op = "total"
  /\ last.req = [kind |-> "QuotationItem", quantity |-> 2, price |-> 50000,
                 discount |-> 5000, gst |-> 1800]
  /\ last.old.total = 112100

\* ---------------------------------------------------------- invoice numbers

\* Years the clock passes into after BaseYear.
MaxYears == 1

\* datetime.now().year moves on.
NewYear ==
  /\ year < BaseYear + MaxYears
  /\ year' = year + 1
  /\ last' = LastOp("new year", None, NoRow, NoRow, [clamped |-> FALSE])
  /\ UNCHANGED <<stockVars, invoiceVars, quotationVars, initQty, requests,
                 assigned, audit, paidBefore, clamped, rerouted>>

\* The first save of an invoice whose number another row has: the INSERT
\* violates unique=True of invoice_no and save() raises IntegrityError with
\* nothing stored; the instance keeps the number it was given.
SaveInvoiceRaises(terms, status) ==
  /\ \E inst \in {TermedInvoice(None, terms, status)} :
       /\ ~NumberFree(InvoiceDb, inst, year)
       /\ last' = LastOp("IntegrityError", None, NoRow,
                         [invoice_no |-> NextInvoiceNo(invoices, year)],
                         [clamped |-> FALSE])
  /\ UNCHANGED <<stockVars, invoiceVars, quotationVars, year, initQty,
                 requests, assigned, audit, paidBefore, clamped, rerouted>>

\* Mutant of DeleteItems: every handler works on the Stock quantities read
\* before the first one ran.
DeleteItemsStale(db, pks) ==
  LET Returned(s) ==
        IF \E pk \in pks : db.items[pk].stock = s
        THEN LET lastPk == CHOOSE x \in pks :
                   /\ db.items[x].stock = s
                   /\ \A y \in pks : db.items[y].stock = s => y <= x
             IN Restored(db.stockQty[s], db.items[lastPk].quantity)
        ELSE db.stockQty[s]
  IN [db EXCEPT !.stockQty = [s \in Stocks |-> Returned(s)],
                !.items = [pk \in ItemPks |-> IF pk \in pks THEN NoRow ELSE @[pk]]]

\* Collector.delete() for the InvoiceItem rows pks of a deleted invoice: the
\* rows go, then post_delete runs for each instance in primary key order;
\* each handler reads instance.stock from the database when it runs.
RECURSIVE DeleteItems(_, _)
DeleteItems(db, pks) ==
  IF pks = {} THEN db
  ELSE LET pk == CHOOSE x \in pks : \A y \in pks : x <= y
           row == db.items[pk]
           seen == IF row.stock = None THEN 0 ELSE db.stockQty[row.stock]
           inst == ItemInstance(pk, row.invoice, row.stock, seen, row.quantity, row)
       IN DeleteItems(ItemDelete(db, inst), pks \ {pk})

\* Invoice.delete(): on_delete=CASCADE deletes the invoice's items, then the
\* invoice.
InvoiceDelete(sdb, idb, pk) ==
  [sdb |-> DeleteItems(sdb, RowsOf(sdb.items, "invoice", pk)),
   idb |-> [idb EXCEPT !.invoices[pk] = NoRow]]

\* invoice.delete() of a stored invoice.
DeleteInvoice(pk) ==
  /\ invoices[pk] # NoRow
  /\ \E deleted \in {InvoiceDelete(FreshDb, InvoiceDb, pk)} :
       /\ SetStockDb(deleted.sdb)
       /\ invoices' = deleted.idb.invoices
       /\ last' = LastOp("Invoice.delete", pk, invoices[pk],
                         [rows |-> [i \in RowsOf(items, "invoice", pk) |-> items[i]]],
                         deleted.sdb)
  /\ UNCHANGED <<nextInvoicePk, finance, quotationVars, year, initQty,
                 requests, assigned, audit, paidBefore, rerouted>>

\* The last sequence number of four digits.
LastPadded == 9999

\* An invoice saved with no items, as the seq-th of BaseYear.
NumberedRow(seq) ==
  [NewInvoiceRow(DefaultTerms, "UNPAID") EXCEPT
     !.invoice_no = [year |-> BaseYear, seq |-> seq]]

\* No invoice yet, or the invoice numbered LastPadded is the one left of
\* those of BaseYear.
InitNumbering ==
  \/ Init
  \/ InitOf([pk \in InvoicePks |-> IF pk = 1 THEN NumberedRow(LastPadded) ELSE NoRow],
            [op |-> "init", pk |-> None, old |-> NoRow, req |-> NoRow,
             floored |-> FALSE])

NextNumbering ==
  \/ \E pk \in InvoicePks \cup {None} : SaveInvoice(pk, DefaultTerms, "UNPAID")
  \/ SaveInvoiceRaises(DefaultTerms, "UNPAID")
  \/ \E pk \in InvoicePks \cup {None}, terms \in AdminTerms,
        forms \in FormSets(FormChoices(DocsRefs, DocsPricings), MaxForms) :
       AdminSaveInvoice(pk, terms, "UNPAID", forms)
  \/ \E pk \in InvoicePks : DeleteInvoice(pk)
  \/ NewYear

SpecNumbering == InitNumbering /\ [][NextNumbering]_vars

\* The highest sequence number among the invoices numbered in year yr, 0
\* when there is none.
HighestSeq(invs, yr) ==
  LET seqs == {invs[pk].invoice_no.seq :
                 pk \in {o \in InvoicePks : invs[o] # NoRow /\ invs[o].invoice_no.year = yr}}
  IN IF seqs = {} THEN 0 ELSE CHOOSE m \in seqs : \A n \in seqs : n <= m

\* The step is the first save of an invoice, stored under last'.pk.
IsFirstSave ==
  /\ last'.op \in {"Invoice.save", "save_related"}
  /\ invoices[last'.pk] = NoRow

\* C12: the first save of an invoice in year Y gives it the number of year Y
\* whose sequence is 1 when no invoice of Y exists and otherwise one more than
\* the highest sequence among the invoices of Y; other years play no part.
C12_NextNumberFollowsHighest ==
  [][/\ IsFirstSave =>
          invoices'[last'.pk].invoice_no =
            [year |-> year, seq |-> HighestSeq(invoices, year) + 1]
     /\ last'.op = "IntegrityError" =>
          last'.req.invoice_no =
            [year |-> year, seq |-> HighestSeq(invoices, year) + 1]]_vars

\* C13: a save of an invoice that has a number leaves the number as it is,
\* whatever the year and whichever invoices came or went; no other step
\* touches it either.
C13_NumberImmutable ==
  [][\A pk \in InvoicePks :
       (invoices[pk] # NoRow /\ invoices'[pk] # NoRow) =>
         invoices'[pk].invoice_no = invoices[pk].invoice_no]_vars

\* An invoice numbered in BaseYear has been saved again in a later year,
\* through the admin with a line acted on, and keeps its number.
C13_Witness ==
  /\ last.op = "save_related"
  /\ last.req.forms > 0
  /\ year > BaseYear
  /\ invoices[last.pk].invoice_no.year = BaseYear
  /\ \E o \in InvoicePks : o < last.pk /\ invoices[o] = NoRow

\* ------------------------------------------------------------ Finance posting

\* One invoice through the admin, PAID or UNPAID, its terms and lines changing;
\* the Finance rows are those save_related posts.
NextFinance ==
  \/ \E pk \in {1, None}, terms \in AdminTerms, status \in PaymentStatus,
        forms \in FormSets(FormChoices(DocsRefs, DocsPricings), MaxForms) :
       (pk = None => nextInvoicePk = 1) /\ AdminSaveInvoice(pk, terms, status, forms)

SpecFinance == Init /\ [][NextFinance]_vars

\* The step is an admin save of the invoice last'.pk.
IsAdminSave == last'.op = "save_related"

\* The Finance rows the step created.
NewEntries == SubSeq(finance', Len(finance) + 1, Len(finance'))

\* The step leaves its invoice PAID with a total.
LeavesPaid ==
  /\ invoices'[last'.pk].payment_status = "PAID"
  /\ invoices'[last'.pk].total_amount > 0

\* C14: the first admin save that leaves an invoice PAID with a total above 0
\* creates one Finance CREDIT row, of the total just recomputed; an admin save
\* of the invoice with nothing changed creates no Finance row.
C14_FirstPaidSavePostsOnce ==
  [][IsAdminSave =>
       /\ (LeavesPaid /\ last'.pk \notin paidBefore) =>
            /\ Len(NewEntries) = 1
            /\ NewEntries[1].transaction_type = "CREDIT"
            /\ NewEntries[1].amount = invoices'[last'.pk].total_amount
            /\ NewEntries[1].description = invoices'[last'.pk].invoice_no
       /\ (last'.req.same /\ last'.req.forms = 0) => finance' = finance]_vars

\* A PAID invoice with a total has been saved again through the admin with
\* nothing changed, and its one CREDIT row is the only Finance row.
C14_Witness ==
  /\ last.op = "save_related"
  /\ last.req.same
  /\ last.req.forms = 0
  /\ last.pk \in paidBefore
  /\ invoices[last.pk].payment_status = "PAID"
  /\ invoices[last.pk].total_amount > 0
  /\ Len(finance) = 1
  /\ finance[1].amount = invoices[last.pk].total_amount

\* C15: an admin save creates no Finance CREDIT row while a CREDIT row naming
\* the invoice's number exists, whatever the save changes; so no invoice
\* number is named by two CREDIT rows.
C15_OneCreditPerInvoice ==
  [][IsAdminSave =>
       /\ CreditExistsAnyAmount(finance, invoices'[last'.pk]) => finance' = finance
       /\ \A i, j \in 1..Len(finance') :
            (i # j /\ finance'[i].transaction_type = "CREDIT"
                   /\ finance'[j].transaction_type = "CREDIT")
              => finance'[i].description # finance'[j].description]_vars

\* C16: an admin save that leaves the invoice UNPAID, or with a total of 0,
\* leaves the Finance rows as they are.
C16_NoPostingUnlessPaidWithTotal ==
  [][(IsAdminSave /\ ~LeavesPaid) => finance' = finance]_vars

\* The invoice saved last through the admin is PAID and holds items, but its
\* discount leaves a total of 0, and a row was posted for it earlier.
C16_Witness ==
  /\ last.op = "save_related"
  /\ invoices[last.pk].payment_status = "PAID"
  /\ invoices[last.pk].total_amount = 0
  /\ InvoiceItemTotal(items, last.pk) > 0
  /\ Len(finance) > 0

\* -------------------------------------------------------------- audit trail

\* AuditEvent rows kept in one run.
MaxAudit == 4

\* AuditEvent.objects.create(...): the fields of the row that tell events
\* apart; created_at is the position in audit.
AuditEventRow(action, ct, id, repr, message) ==
  [action |-> action, content_type |-> ct, object_id |-> id,
   object_repr |-> repr, message |-> message]

\* A stored invoice as the admin holds it: its content type, pk and str(obj),
\* which is f"Invoice {invoice_no}".
InvoiceObj(idb, pk) ==
  [content_type |-> "invoice", pk |-> pk, repr |-> idb.invoices[pk].invoice_no]

\* AuditedModelAdmin._create_audit_event
create_audit_event(aud, obj, action, message) ==
  Append(aud, AuditEventRow(action, obj.content_type, obj.pk, obj.repr, message))

\* AuditedModelAdmin.log_deletion: the message is the object_repr handed in.
log_deletion(aud, obj) == create_audit_event(aud, obj, "DELETE", "object_repr")

\* The elements of a set of primary keys in increasing order.
RECURSIVE InPkOrder(_)
InPkOrder(pks) ==
  IF pks = {} THEN <<>>
  ELSE LET pk == CHOOSE x \in pks : \A y \in pks : x <= y
       IN <<pk>> \o InPkOrder(pks \ {pk})

\* log_deletion for each object of a sequence, in order.
RECURSIVE LogDeletions(_, _)
LogDeletions(aud, objs) ==
  IF objs = <<>> THEN aud ELSE LogDeletions(log_deletion(aud, Head(objs)), Tail(objs))

\* The DELETE rows delete_model and delete_queryset write from what they
\* captured before deleting.
RECURSIVE LogCaptured(_, _)
LogCaptured(aud, infos) ==
  IF infos = <<>> THEN aud
  ELSE LogCaptured(
         Append(aud, AuditEventRow("DELETE", Head(infos).content_type, Head(infos).pk,
                                   Head(infos).repr, "Deleted object_repr")),
         Tail(infos))

\* QuerySet.delete() of the invoices pks: one Collector deletes the items of
\* all of them, then the invoices.
InvoicesDelete(sdb, idb, pks) ==
  [sdb |-> DeleteItems(sdb, {i \in ItemPks : sdb.items[i] # NoRow
                                             /\ sdb.items[i].invoice \in pks}),
   idb |-> [idb EXCEPT !.invoices = [pk \in InvoicePks |->
                                       IF pk \in pks THEN NoRow ELSE @[pk]]]]

\* AuditedModelAdmin.delete_model: str(obj), the pk and the content type are
\* captured, the object is deleted, the DELETE row is written.
delete_model(sdb, idb, aud, pk) ==
  LET info == InvoiceObj(idb, pk)
      deleted == InvoiceDelete(sdb, idb, pk)
  IN [sdb |-> deleted.sdb, idb |-> deleted.idb,
      audit |-> LogCaptured(aud, <<info>>)]

\* AuditedModelAdmin.delete_queryset: the objects' info is captured, the
\* queryset is deleted, one DELETE row is written per captured object.
delete_queryset(sdb, idb, aud, pks) ==
  LET infos == [i \in 1..Cardinality(pks) |-> InvoiceObj(idb, InPkOrder(pks)[i])]
      deleted == InvoicesDelete(sdb, idb, pks)
  IN [sdb |-> deleted.sdb, idb |-> deleted.idb,
      audit |-> LogCaptured(aud, infos)]

\* Whether ModelAdmin calls the log_deletion hook of a subclass before it
\* deletes: it does up to Django 5.2 (the delete view and delete_selected call
\* log_deletion, or log_deletions which hands over to an overridden
\* log_deletion); later versions have no such hook.
LogDeletionCalled == BOOLEAN

\* The stored state after an admin deletion of invoices.
SetDeleted(done, op, pks) ==
  /\ Len(done.audit) <= MaxAudit
  /\ SetStockDb(done.sdb)
  /\ invoices' = done.idb.invoices
  /\ audit' = done.audit
  /\ last' = LastOp(op, None, NoRow, [pks |-> pks], done.sdb)
  /\ UNCHANGED <<nextInvoicePk, finance, quotationVars, year, initQty,
                 requests, assigned, paidBefore, rerouted>>

\* The delete view of InvoiceAdmin, confirmed.
AdminDeleteInvoice(pk, hooked) ==
  /\ invoices[pk] # NoRow
  /\ \E logged \in {IF hooked THEN log_deletion(audit, InvoiceObj(InvoiceDb, pk))
                    ELSE audit} :
       SetDeleted(delete_model(FreshDb, InvoiceDb, logged, pk), "delete_view", {pk})

\* The delete_selected action of InvoiceAdmin on the invoices pks, confirmed.
AdminDeleteSelected(pks, hooked) ==
  /\ pks # {}
  /\ \A pk \in pks : invoices[pk] # NoRow
  /\ \E logged \in {IF hooked
                    THEN LogDeletions(audit, [i \in 1..Cardinality(pks) |->
                                                InvoiceObj(InvoiceDb, InPkOrder(pks)[i])])
                    ELSE audit} :
       SetDeleted(delete_queryset(FreshDb, InvoiceDb, logged, pks),
                  "delete_selected", pks)

\* _auth_event_handler(action): the user_logged_in / user_logged_out signal.
AuthEvent(action) ==
  /\ Len(audit) < MaxAudit
  /\ audit' = Append(audit, AuditEventRow(action, None, None, None, "User event"))
  /\ last' = LastOp("auth", None, NoRow, [action |-> action], [clamped |-> FALSE])
  /\ UNCHANGED <<stockVars, invoiceVars, quotationVars, year, initQty,
                 requests, assigned, paidBefore, clamped, rerouted>>

\* The rows of a sequence other than those at the positions ids.
RECURSIVE WithoutRows(_, _, _)
WithoutRows(aud, ids, i) ==
  IF i > Len(aud) THEN <<>>
  ELSE (IF i \in ids THEN <<>> ELSE <<aud[i]>>) \o WithoutRows(aud, ids, i + 1)

\* Mutant of audit_event_delete: the row is deleted.
audit_event_delete_removes(aud, i) ==
  [audit |-> WithoutRows(aud, {i}, 1), raised |-> "none"]

\* AuditEvent.delete
audit_event_delete(aud, i) == [audit |-> aud, raised |-> "PermissionError"]

\* AuditEventAdmin.has_delete_permission, has_change_permission, actions and
\* readonly_fields.
has_delete_permission == FALSE
has_change_permission == FALSE
actions == {}
AuditEventFields == {"action", "content_type", "object_id", "object_repr", "message"}
readonly_fields == AuditEventFields

\* The delete view of AuditEventAdmin on row i: without the permission it
\* raises PermissionDenied, with it delete_model calls obj.delete().
audit_delete_view(aud, i) ==
  IF has_delete_permission THEN audit_event_delete(aud, i)
  ELSE [audit |-> aud, raised |-> "PermissionDenied"]

\* A changelist POST of AuditEventAdmin asking for delete_selected on the rows
\* ids: with actions = None no action runs; delete_selected itself would
\* delete the queryset without calling AuditEvent.delete.
audit_delete_selected(aud, ids) ==
  IF "delete_selected" \in actions /\ has_delete_permission
  THEN [audit |-> WithoutRows(aud, ids, 1), raised |-> "none"]
  ELSE [audit |-> aud, raised |-> "no such action"]

\* Mutant of audit_change_view: the form stores what it is sent.
audit_change_view_open(aud, i, field, value) ==
  [audit |-> [aud EXCEPT ![i][field] = value], raised |-> "none"]

\* A change view POST of AuditEventAdmin setting a field of row i.
audit_change_view(aud, i, field, value) ==
  IF ~has_change_permission THEN [audit |-> aud, raised |-> "PermissionDenied"]
  ELSE IF field \in readonly_fields THEN [audit |-> aud, raised |-> "none"]
  ELSE [audit |-> [aud EXCEPT ![i][field] = value], raised |-> "none"]

\* An attempt on stored AuditEvent rows, with its outcome.
AuditAttempt(op, ids, done) ==
  /\ audit' = done.audit
  /\ last' = LastOp(op, None, NoRow, [ids |-> ids, raised |-> done.raised],
                    [clamped |-> FALSE])
  /\ UNCHANGED <<stockVars, invoiceVars, quotationVars, year, initQty,
                 requests, assigned, paidBefore, clamped, rerouted>>

\* event.delete() on the i-th row.
DeleteAuditEvent(i) ==
  i \in 1..Len(audit) /\ AuditAttempt("AuditEvent.delete", {i}, audit_event_delete(audit, i))

\* The admin's delete view on the i-th row.
AdminDeleteAuditEvent(i) ==
  i \in 1..Len(audit) /\ AuditAttempt("audit delete_view", {i}, audit_delete_view(audit, i))

\* The admin's changelist asked to delete the rows ids.
AdminDeleteAuditEvents(ids) ==
  /\ ids # {}
  /\ ids \subseteq 1..Len(audit)
  /\ AuditAttempt("audit delete_selected", ids, audit_delete_selected(audit, ids))

\* The admin's change view asked to set a field of the i-th row.
AdminChangeAuditEvent(i, field, value) ==
  /\ i \in 1..Len(audit)
  /\ AuditAttempt("audit change_view", {i}, audit_change_view(audit, i, field, value))

\* Invoices are saved, deleted through the admin one by one and in bulk,
\* users log in and out, and AuditEvent rows are attacked through every path.
NextAudit ==
  \/ SaveInvoice(None, DefaultTerms, "UNPAID")
  \/ \E pk \in InvoicePks, hooked \in LogDeletionCalled : AdminDeleteInvoice(pk, hooked)
  \/ \E pks \in SUBSET InvoicePks, hooked \in LogDeletionCalled :
       AdminDeleteSelected(pks, hooked)
  \/ \E action \in {"LOGIN", "LOGOUT"} : AuthEvent(action)
  \/ \E i \in 1..MaxAudit : DeleteAuditEvent(i)
  \/ \E i \in 1..MaxAudit : AdminDeleteAuditEvent(i)
  \/ \E ids \in SUBSET (1..MaxAudit) : AdminDeleteAuditEvents(ids)
  \/ \E i \in 1..MaxAudit, field \in AuditEventFields :
       AdminChangeAuditEvent(i, field, "OTHER")

SpecAudit == Init /\ [][NextAudit]_vars

\* The step tries to delete AuditEvent rows.
IsAuditDelete ==
  last'.op \in {"AuditEvent.delete", "audit delete_view", "audit delete_selected"}

NewEvents == SubSeq(audit', Len(audit) + 1, Len(audit'))

\* C19: deleting invoices through the admin, one or several, writes one
\* DELETE row for each, with the pk and the str() the invoice had before.
C19_OneDeleteEventEach ==
  [][last'.op \in {"delete_view", "delete_selected"} =>
       /\ Len(NewEvents) = Cardinality(last'.req.pks)
       /\ \A pk \in last'.req.pks :
            \E i \in 1..Len(NewEvents) :
              /\ NewEvents[i].action = "DELETE"
              /\ NewEvents[i].object_id = pk
              /\ NewEvents[i].object_repr = invoices[pk].invoice_no]_vars

\* ------------------------------------------------------ deleting an invoice

\* Invoices are saved, get items with and without stock, and are deleted.
NextCascade ==
  \/ SaveInvoice(None, DefaultTerms, "UNPAID")
  \/ \E inv \in InvoicePks, s \in StockRefs, n \in Qtys :
       CreateItem(inv, s, n, DefaultPricing)
  \/ \E pk \in ItemPks, s \in StockRefs, n \in Qtys :
       UpdateItem(pk, s, n, DefaultPricing)
  \/ \E pk \in InvoicePks : DeleteInvoice(pk)

SpecCascade == Init /\ [][NextCascade]_vars

\* The quantity the items of invoice inv hold of Stock s.
HeldBy(table, inv, s) ==
  SumQuantity(table, {pk \in RowsOf(table, "invoice", inv) : table[pk].stock = s})

\* C20: deleting an invoice deletes its items and no others, and adds to
\* every Stock the quantities of the deleted items that referenced it.
C20_InvoiceDeleteReturnsStock ==
  [][last'.op = "Invoice.delete" =>
       /\ invoices'[last'.pk] = NoRow
       /\ \A pk \in ItemPks :
            items'[pk] = IF items[pk] # NoRow /\ items[pk].invoice = last'.pk
                         THEN NoRow ELSE items[pk]
       /\ \A s \in Stocks :
            stockQty'[s] = stockQty[s] + HeldBy(items, last'.pk, s)]_vars

\* An invoice with two items on one Stock has been deleted, and the Stock
\* holds what they held again.
C20_Witness ==
  /\ last.op = "Invoice.delete"
  /\ \E p, q \in DOMAIN last.req.rows :
       /\ p # q
       /\ last.req.rows[p].stock # None
       /\ last.req.rows[p].stock = last.req.rows[q].stock
       /\ stockQty[last.req.rows[p].stock] >=
            last.req.rows[p].quantity + last.req.rows[q].quantity
  /\ items = [pk \in ItemPks |-> NoRow]

\* ------------------------------------------- several lines in one request

\* One invoice whose add and change views act on up to MaxForms + 1 lines of
\* the inline formset at once, on any Stock.
NextBatch ==
  \E pk \in {1, None},
     forms \in FormSets(FormChoices(Stocks, {DefaultPricing}), MaxForms + 1) :
    /\ pk = None => nextInvoicePk = 1
    /\ AdminSaveInvoice(pk, DefaultTerms, "UNPAID", forms)

SpecBatch == Init /\ [][NextBatch]_vars

\* The items the step created, and those of them that reference Stock s.
CreatedPks == {pk \in ItemPks : items[pk] = NoRow /\ items'[pk] # NoRow}
CreatedOn(s) == {pk \in CreatedPks : items'[pk].stock = s}

\* C21: when one administrative save of an invoice creates two or more items
\* that reference the same Stock (and acts on no other line), the Stock's
\* quantity afterwards is max(0, previous quantity - sum of those items'
\* quantities).
C21_BatchDeductsSum ==
  [][(last'.op = "save_related" /\ last'.req.forms = Cardinality(CreatedPks))
     => \A s \in Stocks :
          Cardinality(CreatedOn(s)) >= 2
            => stockQty'[s] =
                 Max(0, stockQty[s] - SumQuantity(items', CreatedOn(s)))]_vars

\* -------------------------------------------------- claims: interleaved saves

\* One invoice is added through the admin with a line, UNPAID or PAID; change
\* views of it and first saves of further invoices then run in requests whose
\* statements interleave.
NextRace ==
  \/ \E status \in PaymentStatus,
        forms \in FormSets(FormChoices(DocsRefs, DocsPricings), MaxForms) :
       /\ nextInvoicePk = 1
       /\ \A r \in Requests : requests[r] = Idle
       /\ AdminSaveInvoice(None, DefaultTerms, status, forms)
  \/ \E r \in Requests, status \in PaymentStatus :
       SaveNumber(r, DefaultTerms, status)
  \/ \E r \in Requests : SaveInsert(r)
  \/ \E r \in Requests : SaveInsertRaises(r)
  \/ \E r \in Requests, status \in PaymentStatus :
       AdminSaveSaved(r, 1, DefaultTerms, status)
  \/ \E r \in Requests : AdminSaveChecked(r)
  \/ \E r \in Requests : AdminSaveCreate(r)

SpecRace == Init /\ [][NextRace]_vars

\* The CREDIT rows of fin that name invoice_no with this amount.
CreditsOf(fin, invoice_no, amount) ==
  {i \in 1..Len(fin) :
     /\ fin[i].transaction_type = "CREDIT"
     /\ fin[i].amount = amount
     /\ fin[i].description = invoice_no}

\* C22: a request that has passed save_related's duplicate check creates its
\* CREDIT row whatever other requests have created since the check; so two
\* interleaved saves of one PAID invoice with a total can both pass the check
\* before either creates its row, and two CREDIT rows for the invoice result.
C22_PassedCheckPosts ==
  [][\A r \in Requests :
       (requests[r].pc = "create" /\ requests'[r] = Idle) =>
         /\ Len(finance') = Len(finance) + 1
         /\ finance'[Len(finance')] =
              [transaction_type |-> "CREDIT",
               amount |-> requests[r].inst.row.total_amount,
               description |-> requests[r].inst.row.invoice_no]
         /\ SubSeq(finance', 1, Len(finance)) = finance]_vars

\* Two CREDIT rows of the same amount name the same PAID invoice, and the
\* second was created by a request while the first was there.
C22_Witness ==
  /\ last.op = "Finance.create"
  /\ invoices[last.pk].payment_status = "PAID"
  /\ invoices[last.pk].total_amount > 0
  /\ Cardinality(CreditsOf(finance, invoices[last.pk].invoice_no,
                           invoices[last.pk].total_amount)) = 2

\* No two stored invoices carry the same invoice_no.
NumbersDistinct(invs) ==
  \A p, q \in InvoicePks :
    (p # q /\ invs[p] # NoRow /\ invs[q] # NoRow)
      => invs[p].invoice_no # invs[q].invoice_no

\* The step ends the first save request r had numbered.
EndsFirstSave(r) == requests[r].pc = "numbered" /\ requests'[r] = Idle

\* The number request r holds is the number of a stored invoice.
HoldsTakenNumber(r) ==
  \E pk \in InvoicePks :
    /\ invoices[pk] # NoRow
    /\ invoices[pk].invoice_no = requests[r].inst.row.invoice_no

\* C23, as stated: when the first saves of two new invoices interleave and
\* both have read the same highest sequence number, each of them stores its
\* invoice under the number it composed, so that two stored invoices carry
\* the same invoice_no.
C23_RaceStoresDuplicate ==
  [][\A r \in Requests :
       EndsFirstSave(r) =>
         \E pk \in InvoicePks :
           /\ invoices[pk] = NoRow
           /\ invoices'[pk] # NoRow
           /\ invoices'[pk].invoice_no = requests[r].inst.row.invoice_no]_vars

\* C23, as amended: interleaved first saves can compose the same invoice_no,
\* but the save that comes second raises IntegrityError and stores nothing;
\* no two stored invoices ever carry the same invoice_no.
C23_RaceRejectedByUnique ==
  [][/\ NumbersDistinct(invoices')
     /\ \A r \in Requests :
          (EndsFirstSave(r) /\ HoldsTakenNumber(r)) =>
            /\ last'.op = "IntegrityError"
            /\ invoices' = invoices]_vars

\* Two requests composed the same invoice_no from the same highest number;
\* one stored its invoice and the other has just been refused.
C23_Witness ==
  /\ last.op = "IntegrityError"
  /\ last.req.invoice_no.seq < LastPadded
  /\ \E pk \in InvoicePks :
       /\ invoices[pk] # NoRow
       /\ invoices[pk].invoice_no = last.req.invoice_no
       /\ last.req.invoice_no = [year |-> year,
                                 seq |-> HighestSeq(invoices, year)]

\* ------------------------------------------------ claims: the long run

\* C24: with no direct edit of a Stock, no sequence of creates, updates and
\* deletes of items leaves a Stock's quantity above its initial quantity.
C24_NeverAboveInitial == \A s \in Stocks : stockQty[s] <= initQty[s]

\* C25: in sequential operation the invoice_no given to a new invoice was
\* never given to an invoice before, whether or not that invoice still
\* exists.
C25_NumberNeverReused ==
  [][IsFirstSave => invoices'[last'.pk].invoice_no \notin assigned]_vars

\* C26: once a save of an item is complete, _invoice_item_old_values holds no
\* entry for the item (the snapshot an update works from was taken in that
\* same save and is consumed by it).
C26_NoSnapshotLeft ==
  [][(IsStep("create") \/ IsStep("update")) => oldValues'[StepPk] = NoRow]_vars

====
